---- MODULE Spec2Model ----
(***************************************************************************)
(* Model of src/app.py: the breakout screener check_breakout_dna_stable    *)
(* (one symbol: up to three fetch-and-classify attempts) and the tab4 scan *)
(* button handler (ThreadPoolExecutor fan-out, as_completed collection,    *)
(* st.session_state.final_hits_df).                                        *)
(*                                                                         *)
(* Numbers.  Prices and volumes are non-negative integers.  A rolling mean *)
(* is kept as the exact fraction <<sum, window>>; percentages and ratios   *)
(* rounded to two decimals are kept in hundredths (3.5 % is 350, a volume  *)
(* ratio of 0.75 is 75).  pandas' missing value and a non-numeric cell are *)
(* the two negative cell values NaN and Bad.  The code's binary floating   *)
(* point is modelled by exact rational arithmetic.                         *)
(***************************************************************************)
EXTENDS Integers, Sequences, FiniteSets, TLC

\* ------------------------------------------------------------------------
\* Program constants
\* ------------------------------------------------------------------------
MinBars == 245
Retries == 3
LotSize == 1000
MinAvgLots == 300
DefaultMinVolume == 500
W5 == 5
W10 == 10
W20 == 20
W60 == 60
W240 == 240
Ma60Back == 5
max_workers == 15
ProgressEvery == 30

\* Cell values that are not numbers: pandas NaN, and a non-numeric cell
\* (a column of dtype object).
NaN == -1
Bad == -2

\* ------------------------------------------------------------------------
\* Bounds of the model
\* ------------------------------------------------------------------------
\* How many trailing bars of a series vary freely; older bars are flat.
TailLen == 6
\* The longest candidate list of a scan.
MaxList == 3
\* The longest candidate list handed to the executor when its tasks are
\* only counted.
MaxTasks == 17

\* ------------------------------------------------------------------------
\* The DataFrame returned by yf.Ticker(ticker).history(...)
\* ------------------------------------------------------------------------
\* A frame of n bars: closes are `base` except the last Len(tail) bars, which
\* are `tail` (oldest first); volumes are `vbase` except the last bar, `vlast`.
Frame(n, base, tail, vbase, vlast) ==
    [n |-> n, base |-> base, tail |-> tail, vbase |-> vbase, vlast |-> vlast]

EmptyFrame == Frame(0, 100, <<>>, 0, 0)

\* df['Close'].iloc[i-1], 1 <= i <= df.n
Close(df, i) ==
    LET k == df.n - i
    IN  IF k < Len(df.tail) THEN df.tail[Len(df.tail) - k] ELSE df.base

\* df['Volume'].iloc[i-1]
Volume(df, i) == IF i = df.n THEN df.vlast ELSE df.vbase

Col(df, c, i) == IF c = "Close" THEN Close(df, i) ELSE Volume(df, i)

\* By construction the cells 1..FlatUpTo(df, c) of a column all hold
\* FlatValue(df, c); sums and searches over them are taken in one step.
FlatUpTo(df, c) == IF c = "Close" THEN df.n - Len(df.tail) ELSE df.n - 1
FlatValue(df, c) == IF c = "Close" THEN df.base ELSE df.vbase
Varying(df, c, lo, hi) ==
    { k \in lo..hi : k > FlatUpTo(df, c) }

\* A column holding a non-numeric cell has dtype object: rolling() raises.
HasBad(df, c) ==
    \/ FlatUpTo(df, c) >= 1 /\ FlatValue(df, c) = Bad
    \/ \E k \in Varying(df, c, 1, df.n) : Col(df, c, k) = Bad

WindowHasNaN(df, c, lo, hi) ==
    \/ lo <= FlatUpTo(df, c) /\ lo <= hi /\ FlatValue(df, c) = NaN
    \/ \E k \in Varying(df, c, lo, hi) : Col(df, c, k) = NaN

\* The sum of the cells lo..hi.
RECURSIVE WindowSum(_, _, _, _)
WindowSum(df, c, lo, hi) ==
    IF lo > hi THEN 0
    ELSE IF hi <= FlatUpTo(df, c) THEN (hi - lo + 1) * FlatValue(df, c)
    ELSE Col(df, c, hi) + WindowSum(df, c, lo, hi - 1)

\* df[c].rolling(w).mean().iloc[i-1]: NaN until w bars exist and whenever the
\* window holds a NaN, else the mean as <<sum, w>>.
RollingMean(df, c, w, i) ==
    IF i < w \/ WindowHasNaN(df, c, i - w + 1, i) THEN <<NaN, 1>>
    ELSE <<WindowSum(df, c, i - w + 1, i), w>>

IsNaN(m) == m[1] = NaN

\* Float comparisons: every comparison with NaN is False.
FracGt(a, b) == ~IsNaN(a) /\ ~IsNaN(b) /\ a[1] * b[2] > b[1] * a[2]
FracLt(a, b) == FracGt(b, a)
Cell(x) == IF x = NaN THEN <<NaN, 1>> ELSE <<x, 1>>

\* Python's max(list) / min(list): keep the first element unless a later one
\* compares greater / smaller (so a NaN that is not first is skipped).
RECURSIVE PyMax(_)
PyMax(s) ==
    IF Len(s) = 1 THEN s[1]
    ELSE LET m == PyMax(SubSeq(s, 1, Len(s) - 1))
         IN  IF FracGt(s[Len(s)], m) THEN s[Len(s)] ELSE m

RECURSIVE PyMin(_)
PyMin(s) ==
    IF Len(s) = 1 THEN s[1]
    ELSE LET m == PyMin(SubSeq(s, 1, Len(s) - 1))
         IN  IF FracLt(s[Len(s)], m) THEN s[Len(s)] ELSE m

\* round(num / den, 0) for num >= 0, den > 0, ties to even.
RoundHalfEven(num, den) ==
    LET q == num \div den
        r == num % den
    IN  IF 2 * r < den THEN q
        ELSE IF 2 * r > den THEN q + 1
        ELSE IF q % 2 = 0 THEN q ELSE q + 1

\* round((max(ma_list) / min(ma_list) - 1) * 100, 2), in hundredths; NaN when
\* either is NaN.
GapOf(ma_list) ==
    LET hi == PyMax(ma_list)
        lo == PyMin(ma_list)
    IN  IF IsNaN(hi) \/ IsNaN(lo) THEN NaN
        ELSE RoundHalfEven(10000 * (hi[1] * lo[2] - lo[1] * hi[2]), lo[1] * hi[2])

\* round(last['Volume'] / vol_avg20, 2) if vol_avg20 > 0 else 1, in hundredths
VRatioOf(last_volume, vol_avg20) ==
    IF FracGt(vol_avg20, <<0, 1>>)
    THEN IF last_volume = NaN THEN NaN
         ELSE RoundHalfEven(100 * last_volume * vol_avg20[2], vol_avg20[1])
    ELSE 100

\* x <= limit for a rounded value x (False for NaN)
LeLimit(x, limit) == x # NaN /\ x <= limit

\* ------------------------------------------------------------------------
\* check_breakout_dna_stable: one pass through the try body
\* ------------------------------------------------------------------------
\* Return values.  None is the record with ok = FALSE; a hit carries the
\* dict's sid, price, gap, v_ratio and type (the MACD "signal" label needs
\* exponential averages over the whole series and decides no return path;
\* it is left out of the record).
None == [ok |-> FALSE, sid |-> "", price |-> 0, gap |-> 0, v_ratio |-> 0,
         type |-> ""]

Hit(ticker, price, gap, v_ratio, type) ==
    [ok |-> TRUE, sid |-> ticker, price |-> price, gap |-> gap,
     v_ratio |-> v_ratio, type |-> type]

MaCols == {"MA5", "MA10", "MA20", "MA60", "MA240", "DIF", "DEA", "MACD_Hist"}

Returned(value, cols, why) ==
    [kind |-> "return", value |-> value, cols |-> cols, why |-> why]
Raised(cols) ==
    [kind |-> "raise", value |-> None, cols |-> cols, why |-> "raise"]

\* (mutant) the length test asks only for the 240 bars of the longest window
TooShort_Needs240(df) == df.n = 0 \/ df.n < W240

\* line 52: if df.empty or len(df) < 245: return None
TooShort(df) == df.n = 0 \/ df.n < MinBars

\* line 62: current_vol_lots < min_volume or avg_vol_lots < 300
Illiquid(df, min_volume) ==
    LET vol_avg20 == RollingMean(df, "Volume", W20, df.n)
    IN  \/ FracLt(Cell(Volume(df, df.n)), <<min_volume * LotSize, 1>>)
        \/ FracLt(vol_avg20, <<MinAvgLots * LotSize, 1>>)

\* (mutant) the trend is taken against df['MA60'].iloc[-6]
IsMa60Up_SixthLast(df) ==
    FracGt(RollingMean(df, "Close", W60, df.n),
           RollingMean(df, "Close", W60, df.n - Ma60Back))

\* line 84: is_ma60_up = last['MA60'] > df['MA60'].iloc[-5]
IsMa60Up(df) ==
    FracGt(RollingMean(df, "Close", W60, df.n),
           RollingMean(df, "Close", W60, df.n - Ma60Back + 1))

\* (mutant) the volume comparison is turned around: v_ratio >= v_limit
Matches_VolumeAbove(df, g_limit, v_limit) ==
    LET ma_list == << RollingMean(df, "Close", W5, df.n),
                      RollingMean(df, "Close", W10, df.n),
                      RollingMean(df, "Close", W20, df.n) >>
        gap == GapOf(ma_list)
        v_ratio == VRatioOf(Volume(df, df.n),
                            RollingMean(df, "Volume", W20, df.n))
    IN  /\ LeLimit(gap, g_limit)
        /\ v_ratio # NaN /\ v_ratio >= v_limit
        /\ FracGt(Cell(Close(df, df.n)), RollingMean(df, "Close", W60, df.n))
        /\ IsMa60Up(df)

\* lines 79-85: the four-way condition
Matches(df, g_limit, v_limit) ==
    LET ma_list == << RollingMean(df, "Close", W5, df.n),
                      RollingMean(df, "Close", W10, df.n),
                      RollingMean(df, "Close", W20, df.n) >>
        gap == GapOf(ma_list)
        v_ratio == VRatioOf(Volume(df, df.n),
                            RollingMean(df, "Volume", W20, df.n))
    IN  /\ LeLimit(gap, g_limit)
        /\ LeLimit(v_ratio, v_limit)
        /\ FracGt(Cell(Close(df, df.n)), RollingMean(df, "Close", W60, df.n))
        /\ IsMa60Up(df)

\* lines 86-93: the dict returned on a match
HitOf(ticker, df) ==
    LET ma_list == << RollingMean(df, "Close", W5, df.n),
                      RollingMean(df, "Close", W10, df.n),
                      RollingMean(df, "Close", W20, df.n) >>
    IN  Hit(ticker, Close(df, df.n), GapOf(ma_list),
            VRatioOf(Volume(df, df.n), RollingMean(df, "Volume", W20, df.n)),
            IF FracGt(Cell(Close(df, df.n)),
                      RollingMean(df, "Close", W240, df.n))
            THEN "long_term_clear" ELSE "catch_up")

\* lines 52-94 on a fetched frame: what the try body does, the columns it
\* has added to df by then, and why it ended.
TryBody(ticker, df, g_limit, v_limit, min_volume) ==
    IF TooShort(df) THEN Returned(None, {}, "short")
    ELSE IF HasBad(df, "Volume") THEN Raised({})
    ELSE IF Illiquid(df, min_volume) THEN Returned(None, {}, "illiquid")
    ELSE IF HasBad(df, "Close") THEN Raised({})
    ELSE IF Matches(df, g_limit, v_limit)
         THEN Returned(HitOf(ticker, df), MaCols, "hit")
         ELSE Returned(None, MaCols, "nomatch")

\* lines 50-96: one pass of the loop body.  history() raises or returns the
\* frame; whatever is raised inside the try block lands in the bare except.
PassOutcome(ticker, fetch_ok, df, g_limit, v_limit, min_volume) ==
    IF fetch_ok THEN TryBody(ticker, df, g_limit, v_limit, min_volume)
    ELSE Raised({})

\* ------------------------------------------------------------------------
\* State
\* ------------------------------------------------------------------------
VARIABLES
    \* one call of check_breakout_dna_stable
    e_ticker,     \* argument ticker
    e_df,         \* the frame the provider holds for the ticker
    g_limit,      \* argument g_limit, hundredths of a percent
    v_limit,      \* argument v_limit, hundredths
    min_volume,   \* argument min_volume, lots
    attempt,      \* the loop variable of `for attempt in range(3)`
    e_pc,         \* "try" | "except" | "after_loop" | "done"
    e_res,        \* the value returned
    e_cols,       \* columns added to df in the last pass
    e_why,        \* which return statement ended the call
    e_fetches,    \* calls of history() so far
    e_raised,     \* passes that ended in the except clause
    fetched,      \* whether the last call of history() returned a frame
    \* the tab4 scan button handler and its executor
    m_pc,         \* "idle" | "submit" | "collect" | "store" | "crashed"
    scanned,      \* the button has been pressed at least once
    search_list,  \* the candidate list of the latest press
    next_submit,  \* position in search_list of the next executor.submit
    work_queue,   \* the executor's queue of submitted, not yet started tasks
    threads,      \* worker threads the executor has started
    fut,          \* per symbol: the future's state, pass number and result
    hits,         \* the local list hits
    i,            \* the enumerate() index of the as_completed loop
    progress,     \* the count last written to the progress bar
    final_hits_df, \* st.session_state.final_hits_df
    \* the executor of one scan, its tasks counted, not named
    p_total,      \* len(search_list)
    p_submitted,  \* executor.submit calls made
    p_queue,      \* tasks in the executor's queue, not yet started
    p_threads,    \* worker threads started
    p_running,    \* tasks a worker thread is running
    p_finished,   \* futures finished and not yet yielded by as_completed
    p_yielded     \* futures yielded by as_completed

evalVars == << e_ticker, e_df, g_limit, v_limit, min_volume, attempt, e_pc,
               e_res, e_cols, e_why, e_fetches, e_raised, fetched >>

callVars == << e_ticker, e_df, attempt, e_pc, e_res, e_cols, e_why,
               e_fetches, e_raised, fetched >>

scanVars == << m_pc, scanned, search_list, next_submit, work_queue, threads,
               fut, hits, i, progress, final_hits_df >>

poolVars == << p_total, p_submitted, p_queue, p_threads, p_running,
               p_finished, p_yielded >>

vars == << evalVars, scanVars, poolVars >>


\* ------------------------------------------------------------------------
\* The market behind the scan: what the provider answers for each symbol,
\* the same on every call.
\* ------------------------------------------------------------------------
Symbols == {"1101.TW", "2317.TW", "2330.TW", "6488.TWO"}

\* history() raises for this symbol on every call.
FetchOk(sid) == sid # "6488.TWO"

MarketFrame(sid) ==
    CASE sid = "2330.TW" ->
           Frame(MinBars + 1, 100, <<110, 90, 90, 110, 110, 110>>, 1000000, 700000)
      [] sid = "2317.TW" ->
           Frame(MinBars, 100, <<90, 90, 90, 110, 110, 110>>, 1000000, 1000000)
      [] sid = "1101.TW" ->
           Frame(MinBars - 1, 100, <<110, 90, 90, 110, 110, 110>>, 1000000, 700000)
      [] OTHER -> EmptyFrame

\* The slider pairs <<g_limit, v_limit>> a press may carry.
ScanCriteria == { <<350, 120>>, <<100, 75>> }

\* check_breakout_dna_stable(ticker, g_limit, v_limit, min_volume) run to its
\* end against the market: the value it returns.
RECURSIVE CallFrom(_, _, _, _, _)
CallFrom(ticker, k, g, v, floor) ==
    IF k >= Retries THEN None
    ELSE LET out == PassOutcome(ticker, FetchOk(ticker), MarketFrame(ticker),
                                g, v, floor)
         IN  IF out.kind = "return" THEN out.value
             ELSE CallFrom(ticker, k + 1, g, v, floor)

check_breakout_dna_stable(ticker, g, v, floor) == CallFrom(ticker, 0, g, v, floor)

\* ------------------------------------------------------------------------
\* The scan (tab4 button handler)
\* ------------------------------------------------------------------------
NoFuture == [state |-> "none", attempt |-> 0, result |-> None, exc |-> FALSE]

AbsentDf == [state |-> "absent", rows |-> <<>>]
NoneDf == [state |-> "None", rows |-> <<>>]

Range(seq) == { seq[k] : k \in 1..Len(seq) }

\* Duplicate-free candidate lists (both branches build the list from a set).
CandidateLists ==
    { l \in UNION { [1..n -> Symbols] : n \in 0..MaxList } :
        \A a, b \in 1..Len(l) : a # b => l[a] # l[b] }

Running == { s \in Symbols : fut[s].state = "running" }

ScanIdle ==
    /\ m_pc = "idle"
    /\ scanned = FALSE
    /\ search_list = <<>>
    /\ next_submit = 1
    /\ work_queue = <<>>
    /\ threads = 0
    /\ fut = [s \in Symbols |-> NoFuture]
    /\ hits = <<>>
    /\ i = 0
    /\ progress = 0
    /\ final_hits_df = AbsentDf

PoolIdle ==
    /\ p_total = 0
    /\ p_submitted = 0
    /\ p_queue = 0
    /\ p_threads = 0
    /\ p_running = 0
    /\ p_finished = 0
    /\ p_yielded = 0

\* No separate call of check_breakout_dna_stable is under way; the sliders
\* are at some pair and the floor is the parameter's default.
CallIdle ==
    /\ e_ticker = ""
    /\ e_df = EmptyFrame
    /\ g_limit = 350
    /\ v_limit = 75
    /\ min_volume = DefaultMinVolume
    /\ attempt = 0
    /\ e_pc = "done"
    /\ e_res = None
    /\ e_cols = {}
    /\ e_why = ""
    /\ e_fetches = 0
    /\ e_raised = 0
    /\ fetched = FALSE

\* The page before the button is first pressed.
InitScan ==
    /\ CallIdle
    /\ ScanIdle
    /\ PoolIdle

\* lines 204-218: the button is pressed with the sliders at some pair and the
\* candidate list built; an empty list skips the whole `if search_list:`
\* block.
ScanButton ==
    /\ m_pc = "idle"
    /\ \E list \in CandidateLists, c \in ScanCriteria :
         /\ search_list' = list
         /\ g_limit' = c[1]
         /\ v_limit' = c[2]
         /\ m_pc' = IF list = <<>> THEN "idle" ELSE "submit"
    /\ scanned' = TRUE
    /\ UNCHANGED << next_submit, work_queue, threads, fut, hits, i, progress,
                    final_hits_df, min_volume >>
    /\ UNCHANGED callVars
    /\ UNCHANGED poolVars

\* line 221, one executor.submit of the dict comprehension: the task is
\* queued, and a thread is started unless max_workers are running or an idle
\* one is left; after the last one the handler enters as_completed.
Submit ==
    /\ m_pc = "submit"
    /\ LET sid == search_list[next_submit]
       IN  /\ fut' = [fut EXCEPT ![sid] = [NoFuture EXCEPT !.state = "pending"]]
           /\ work_queue' = Append(work_queue, sid)
           /\ threads' = IF /\ threads < max_workers
                            /\ threads < Cardinality(Running) + Len(work_queue) + 1
                         THEN threads + 1 ELSE threads
    /\ next_submit' = next_submit + 1
    /\ m_pc' = IF next_submit = Len(search_list) THEN "collect" ELSE "submit"
    /\ UNCHANGED << scanned, search_list, hits, i, progress, final_hits_df >>
    /\ UNCHANGED evalVars
    /\ UNCHANGED poolVars

\* An idle worker thread takes the oldest queued task.
WorkerStart ==
    /\ work_queue # <<>>
    /\ Cardinality(Running) < threads
    /\ fut' = [fut EXCEPT ![Head(work_queue)].state = "running"]
    /\ work_queue' = Tail(work_queue)
    /\ UNCHANGED << m_pc, scanned, search_list, next_submit, threads, hits, i,
                    progress, final_hits_df >>
    /\ UNCHANGED evalVars
    /\ UNCHANGED poolVars

\* (mutant) a raise is not caught: it ends the task and is kept in its
\* future, for future.result() to raise again
AfterPass_Uncaught(f, out) ==
    IF out.kind = "return"
    THEN [f EXCEPT !.state = "finished", !.result = out.value]
    ELSE [f EXCEPT !.state = "finished", !.exc = TRUE]

\* What one pass leaves of the task's future: a return ends the task with
\* its value; a raise is caught, and after the third the loop ends and the
\* task returns None.
AfterPass(f, out) ==
    IF out.kind = "return"
    THEN [f EXCEPT !.state = "finished", !.result = out.value]
    ELSE IF f.attempt + 1 < Retries
         THEN [f EXCEPT !.attempt = f.attempt + 1]
         ELSE [f EXCEPT !.state = "finished", !.attempt = f.attempt + 1,
                        !.result = None]

\* lines 49-97 in a worker thread: one pass of the task
\* check_breakout_dna_stable(sid, g_limit, v_limit), min_volume left at its
\* default.
WorkerPass ==
    /\ \E sid \in Running :
         fut' = [fut EXCEPT ![sid] =
                    AfterPass(fut[sid],
                              PassOutcome(sid, FetchOk(sid), MarketFrame(sid),
                                          g_limit, v_limit, DefaultMinVolume))]
    /\ UNCHANGED << m_pc, scanned, search_list, next_submit, work_queue,
                    threads, hits, i, progress, final_hits_df >>
    /\ UNCHANGED evalVars
    /\ UNCHANGED poolVars

\* (mutant) the hit replaces the list instead of being appended to it
AppendHit_Overwrite(list, res) == IF res.ok THEN <<res>> ELSE list

\* line 224: if res: hits.append(res)
AppendHit(list, res) == IF res.ok THEN Append(list, res) ELSE list

\* lines 222-227, one turn of the as_completed loop: a finished future is
\* yielded, future.result() returns its value or re-raises, the hit is
\* appended and every 30th turn reports progress; after the last future the
\* with block is left.
Collect ==
    /\ m_pc = "collect"
    /\ \E sid \in Symbols :
         /\ fut[sid].state = "finished"
         /\ fut' = [fut EXCEPT ![sid].state = "yielded"]
         /\ IF fut[sid].exc
            THEN /\ m_pc' = "crashed"
                 /\ UNCHANGED << hits, i, progress >>
            ELSE /\ hits' = AppendHit(hits, fut[sid].result)
                 /\ progress' = IF i % ProgressEvery = 0 THEN i + 1 ELSE progress
                 /\ i' = i + 1
                 /\ m_pc' = IF i + 1 = Len(search_list) THEN "store"
                            ELSE "collect"
    /\ UNCHANGED << scanned, search_list, next_submit, work_queue, threads,
                    final_hits_df >>
    /\ UNCHANGED evalVars
    /\ UNCHANGED poolVars

\* pd.DataFrame(hits).sort_values('gap'): the rows in an order of ascending
\* gap (the order among equal gaps is not fixed).
SortedByGap(list) ==
    { r \in [1..Len(list) -> Range(list)] :
        /\ \A h \in Range(list) : \E k \in 1..Len(list) : r[k] = h
        /\ \A a, b \in 1..Len(list) : a < b => r[a].gap <= r[b].gap }

\* lines 229-237: the hits are stored in the session state, sorted, or None
\* is stored when there are none; the executor and the locals are gone.
Store ==
    /\ m_pc = "store"
    /\ IF hits # <<>>
       THEN \E rows \in SortedByGap(hits) :
                final_hits_df' = [state |-> "df", rows |-> rows]
       ELSE final_hits_df' = NoneDf
    /\ m_pc' = "idle"
    /\ next_submit' = 1
    /\ work_queue' = <<>>
    /\ threads' = 0
    /\ fut' = [s \in Symbols |-> NoFuture]
    /\ hits' = <<>>
    /\ i' = 0
    /\ progress' = 0
    /\ UNCHANGED << scanned, search_list >>
    /\ UNCHANGED evalVars
    /\ UNCHANGED poolVars

\* lines 239-270: the rows shown for selection, charting and download
ResultSet == IF final_hits_df.state = "df" THEN final_hits_df.rows ELSE <<>>

Next == ScanButton \/ Submit \/ WorkerStart \/ WorkerPass \/ Collect \/ Store

Spec == InitScan /\ [][Next]_vars

\* ------------------------------------------------------------------------
\* Inputs of the single-call specification
\* ------------------------------------------------------------------------
\* Closes of the older bars are 100; the trailing ones are drawn from:
PriceSet == {90, 110}
FifthLastPriceSet == {80, 110}
LastPriceSet == {90, 110, NaN, Bad}
LenSet == {MinBars - 1, MinBars, MinBars + 1}
\* <<volume of the older bars, volume of the last bar>>, in shares
VolumeSet == { <<0, 0>>, <<1000000, NaN>>, <<1000000, Bad>>,
               <<1000000, 400000>>, <<1000000, 700000>>,
               <<1000000, 1000000>> }
GLimitSet == {100, 350}
VLimitSet == {75, 120}
MinVolumeSet == {300, DefaultMinVolume}

\* The last TailLen closes: the latest one may be missing or non-numeric, and
\* the fifth from last (the bar df['MA60'].iloc[-5] ends on) has its own set.
Tails ==
    { [k \in 1..TailLen |->
          IF k = TailLen THEN l ELSE IF k = TailLen - 4 THEN f ELSE t[k]] :
        t \in [1..(TailLen - 1) -> PriceSet], f \in FifthLastPriceSet,
        l \in LastPriceSet }

Frames ==
    {EmptyFrame} \cup
    { Frame(n, 100, tail, vol[1], vol[2]) :
        n \in LenSet, tail \in Tails, vol \in VolumeSet }

InitEval ==
    /\ e_ticker = "2330.TW"
    /\ e_df \in Frames
    /\ g_limit \in GLimitSet
    /\ v_limit \in VLimitSet
    /\ min_volume \in MinVolumeSet
    /\ attempt = 0
    /\ e_pc = "try"
    /\ e_res = None
    /\ e_cols = {}
    /\ e_why = ""
    /\ e_fetches = 0
    /\ e_raised = 0
    /\ fetched = FALSE
    /\ ScanIdle
    /\ PoolIdle

\* lines 50-94: one pass of the try block.  history() either raises or
\* returns the frame.
EvalTry ==
    /\ e_pc = "try"
    /\ e_fetches' = e_fetches + 1
    /\ \E fetch_ok \in BOOLEAN :
         LET out == PassOutcome(e_ticker, fetch_ok, e_df, g_limit, v_limit,
                                min_volume)
         IN  /\ fetched' = fetch_ok
             /\ e_cols' = out.cols
             /\ e_why' = out.why
             /\ IF out.kind = "return"
                THEN /\ e_pc' = "done"
                     /\ e_res' = out.value
                     /\ e_raised' = e_raised
                ELSE /\ e_pc' = "except"
                     /\ e_res' = e_res
                     /\ e_raised' = e_raised + 1
    /\ UNCHANGED << e_ticker, e_df, g_limit, v_limit, min_volume, attempt >>
    /\ UNCHANGED scanVars
    /\ UNCHANGED poolVars

\* (mutant) the loop allows one attempt more
EvalExcept_OneMore ==
    /\ e_pc = "except"
    /\ attempt' = attempt + 1
    /\ e_pc' = IF attempt + 1 <= Retries THEN "try" ELSE "after_loop"
    /\ UNCHANGED << e_ticker, e_df, g_limit, v_limit, min_volume, e_res,
                    e_cols, e_why, e_fetches, e_raised, fetched >>
    /\ UNCHANGED << scanVars, poolVars >>

\* lines 95-96 and the loop header: sleep, then the next attempt or the end
\* of the loop.
EvalExcept ==
    /\ e_pc = "except"
    /\ attempt' = attempt + 1
    /\ e_pc' = IF attempt + 1 < Retries THEN "try" ELSE "after_loop"
    /\ UNCHANGED << e_ticker, e_df, g_limit, v_limit, min_volume, e_res,
                    e_cols, e_why, e_fetches, e_raised, fetched >>
    /\ UNCHANGED scanVars
    /\ UNCHANGED poolVars

\* line 97: return None once the loop is exhausted
EvalReturnNone ==
    /\ e_pc = "after_loop"
    /\ e_pc' = "done"
    /\ e_res' = None
    /\ e_why' = "exhausted"
    /\ UNCHANGED << e_ticker, e_df, g_limit, v_limit, min_volume, attempt,
                    e_cols, e_fetches, e_raised, fetched >>
    /\ UNCHANGED scanVars
    /\ UNCHANGED poolVars

NextEval == EvalTry \/ EvalExcept \/ EvalReturnNone

SpecEval == InitEval /\ [][NextEval]_vars

\* ------------------------------------------------------------------------
\* The executor of one scan with its tasks counted (lines 220-227): the
\* same submit / start / finish / yield steps as above, for candidate lists
\* longer than the pool is wide.
\* ------------------------------------------------------------------------
InitPool ==
    /\ CallIdle
    /\ ScanIdle
    /\ p_total \in 1..MaxTasks
    /\ p_submitted = 0
    /\ p_queue = 0
    /\ p_threads = 0
    /\ p_running = 0
    /\ p_finished = 0
    /\ p_yielded = 0

\* line 221: executor.submit for the next sid; nothing holds it back
PoolSubmit ==
    /\ p_submitted < p_total
    /\ p_submitted' = p_submitted + 1
    /\ p_queue' = p_queue + 1
    /\ p_threads' = IF p_threads < max_workers /\ p_threads < p_running + p_queue + 1
                    THEN p_threads + 1 ELSE p_threads
    /\ UNCHANGED << p_total, p_running, p_finished, p_yielded >>
    /\ UNCHANGED << evalVars, scanVars >>

\* an idle worker thread takes the oldest queued task
PoolStart ==
    /\ p_queue > 0
    /\ p_running < p_threads
    /\ p_queue' = p_queue - 1
    /\ p_running' = p_running + 1
    /\ UNCHANGED << p_total, p_submitted, p_threads, p_finished, p_yielded >>
    /\ UNCHANGED << evalVars, scanVars >>

\* a call of check_breakout_dna_stable returns in its worker thread
PoolFinish ==
    /\ p_running > 0
    /\ p_running' = p_running - 1
    /\ p_finished' = p_finished + 1
    /\ UNCHANGED << p_total, p_submitted, p_queue, p_threads, p_yielded >>
    /\ UNCHANGED << evalVars, scanVars >>

\* line 222: as_completed, entered after the last submit, yields a finished
\* future
PoolYield ==
    /\ p_submitted = p_total
    /\ p_finished > 0
    /\ p_finished' = p_finished - 1
    /\ p_yielded' = p_yielded + 1
    /\ UNCHANGED << p_total, p_submitted, p_queue, p_threads, p_running >>
    /\ UNCHANGED << evalVars, scanVars >>

NextPool == PoolSubmit \/ PoolStart \/ PoolFinish \/ PoolYield

SpecPool == InitPool /\ [][NextPool]_vars

\* ------------------------------------------------------------------------
\* Claims about the scan (Spec)
\* ------------------------------------------------------------------------
HitSids(list) == { list[k].sid : k \in 1..Len(list) }

Without(list, sid) == SelectSeq(list, LAMBDA x : x # sid)

\* The candidates evaluated one after another, in list order: the hits.
RECURSIVE SequentialScan(_, _, _)
SequentialScan(list, g, v) ==
    IF list = <<>> THEN <<>>
    ELSE LET res == check_breakout_dna_stable(Head(list), g, v, DefaultMinVolume)
         IN  (IF res.ok THEN <<res>> ELSE <<>>)
                 \o SequentialScan(Tail(list), g, v)

\* Every pass of the symbol's call raises.
FailsEveryAttempt(sid) ==
    PassOutcome(sid, FetchOk(sid), MarketFrame(sid), g_limit, v_limit,
                DefaultMinVolume).kind = "raise"

ScanUnderWay == m_pc \in {"submit", "collect", "store"}

\* Some step of the scan can be taken (a running task can always take its
\* next pass).
ScanCanStep ==
    \/ Running # {}
    \/ ENABLED (Submit \/ WorkerStart \/ Collect \/ Store)

\* C1: a symbol failing on every attempt adds no hit and never aborts the
\* scan: the scan never crashes, can always take its next step until it has
\* stored its result, and the hits collected are those of the candidate list
\* without that symbol.
C1_FailingSymbolIsolated ==
    /\ m_pc # "crashed"
    /\ (ScanUnderWay => ScanCanStep)
    /\ (m_pc = "store" =>
          \A f \in Range(search_list) :
              FailsEveryAttempt(f) =>
                  /\ f \notin HitSids(hits)
                  /\ Range(hits) =
                       Range(SequentialScan(Without(search_list, f),
                                            g_limit, v_limit)))

C1_Witness ==
    /\ m_pc = "store"
    /\ "6488.TWO" \in Range(search_list)
    /\ fut["6488.TWO"].attempt = Retries
    /\ hits # <<>>

\* C2: whatever the order in which the tasks complete, the scan collects
\* the hit symbols of the sequential evaluation, each once.
C2_SameHitsAsSequential ==
    m_pc = "store" =>
        /\ HitSids(hits) = HitSids(SequentialScan(search_list, g_limit, v_limit))
        /\ Len(hits) = Len(SequentialScan(search_list, g_limit, v_limit))

\* two hits collected in the reverse of their submission order
C2_Witness ==
    /\ m_pc = "store"
    /\ Len(hits) = 2
    /\ \E a, b \in 1..Len(search_list) :
          a < b /\ search_list[a] = hits[2].sid /\ search_list[b] = hits[1].sid

\* C5: between scans the result set holds the hits of the latest press and
\* nothing else; after a press with an empty candidate list it is empty.
C5_ResultSetIsLatestScan ==
    (m_pc = "idle" /\ scanned) =>
        HitSids(ResultSet) = HitSids(SequentialScan(search_list, g_limit, v_limit))

\* ------------------------------------------------------------------------
\* Claim about the executor (SpecPool)
\* ------------------------------------------------------------------------
\* C10: at most max_workers calls are in flight, and the tasks submitted but
\* not yet started stay within a bound that is the same for every candidate
\* list: the width of the pool.
C10_BoundedBacklog ==
    /\ p_running <= max_workers
    /\ p_queue <= max_workers

\* ------------------------------------------------------------------------
\* Claims about one call of check_breakout_dna_stable (SpecEval)
\* ------------------------------------------------------------------------
Done == e_pc = "done"

\* Every cell of the frame is a number or NaN.
Numeric(df) == ~HasBad(df, "Close") /\ ~HasBad(df, "Volume")

\* The liquidity floor as the specification words it: the latest volume in
\* lots meets the floor and the 20-bar average is at least 300 lots.
PassesLiquidity(df, floor) ==
    /\ Volume(df, df.n) \notin {NaN, Bad}
    /\ Volume(df, df.n) >= floor * LotSize
    /\ \A b \in (df.n - W20 + 1)..df.n : Volume(df, b) \notin {NaN, Bad}
    /\ WindowSum(df, "Volume", df.n - W20 + 1, df.n) >= MinAvgLots * LotSize * W20

\* The four conditions of the classifier, with the MA60 trend taken against
\* the bar `back` bars before the latest one.
FourConditions(df, g, v, back) ==
    LET ma5 == RollingMean(df, "Close", W5, df.n)
        ma10 == RollingMean(df, "Close", W10, df.n)
        ma20 == RollingMean(df, "Close", W20, df.n)
        ma60 == RollingMean(df, "Close", W60, df.n)
        ma60_before == RollingMean(df, "Close", W60, df.n - back)
        gap == GapOf(<<ma5, ma10, ma20>>)
        ratio == VRatioOf(Volume(df, df.n), RollingMean(df, "Volume", W20, df.n))
    IN  /\ gap # NaN /\ gap <= g
        /\ ratio # NaN /\ ratio <= v
        /\ FracGt(Cell(Close(df, df.n)), ma60)
        /\ FracGt(ma60, ma60_before)

ClassifierCase ==
    /\ Done
    /\ fetched
    /\ e_df.n >= MinBars
    /\ Numeric(e_df)
    /\ PassesLiquidity(e_df, min_volume)

\* C3: a fetched series of fewer than 245 bars (an empty one included) ends
\* the call at once with None: no moving-average column was added, and the
\* only fetch that did not raise is the last one (no retry follows it).
C3_ShortSeriesNoResult ==
    (fetched /\ e_df.n < MinBars) =>
        /\ Done
        /\ e_res = None
        /\ e_cols = {}
        /\ e_why = "short"
        /\ e_fetches = e_raised + 1

C3_Witness == Done /\ fetched /\ e_df.n = MinBars - 1 /\ e_res = None

\* C4 as stated: for a liquid series of at least 245 bars a hit is returned
\* exactly when gap <= limit, ratio <= limit, close > MA60 and MA60 is above
\* its value 5 bars earlier.
C4_FiveBarsEarlier ==
    ClassifierCase => (e_res.ok <=> FourConditions(e_df, g_limit, v_limit, 5))

\* C4 as amended: the MA60 trend is taken against the fifth-from-last bar,
\* 4 bars before the latest one (df['MA60'].iloc[-5]).
C4_FourBarsEarlier ==
    ClassifierCase => (e_res.ok <=> FourConditions(e_df, g_limit, v_limit, 4))

C4_Witness ==
    /\ ClassifierCase
    /\ e_res.ok
    /\ ~FourConditions(e_df, g_limit, v_limit, 5)

\* A defect of the latest bar's data: zero 20-bar average volume, or a
\* missing / non-numeric volume or close at the latest bar.
DataDefect(df) ==
    /\ df.n >= W20
    /\ \/ Volume(df, df.n) \in {NaN, Bad}
       \/ Close(df, df.n) \in {NaN, Bad}
       \/ RollingMean(df, "Volume", W20, df.n) = <<0, W20>>

\* C6: a symbol with such a defect yields no result.
C6_DefectYieldsNoResult == (Done /\ DataDefect(e_df)) => ~e_res.ok

\* C7: every hit has its latest volume, in lots, at or above the floor the
\* caller supplied.
C7_HitMeetsFloor ==
    (Done /\ e_res.ok) =>
        /\ Volume(e_df, e_df.n) \notin {NaN, Bad}
        /\ Volume(e_df, e_df.n) >= min_volume * LotSize

\* C8: a series that matches under the call's limits matches under every
\* looser pair of limits.
LooserGLimits == { g \in GLimitSet \cup {g_limit + 1, 500} : g >= g_limit }
LooserVLimits == { v \in VLimitSet \cup {v_limit + 1, 100} : v >= v_limit }

C8_MonotoneInLimits ==
    (Done /\ e_res.ok) =>
        \A g \in LooserGLimits, v \in LooserVLimits :
            TryBody(e_ticker, e_df, g, v, min_volume).value.ok

C8_Witness ==
    /\ Done
    /\ e_res.ok
    /\ g_limit = 100
    /\ v_limit = 75
    /\ e_res.gap > 0

\* C9: at most 3 fetches; a fetch follows only passes that all raised; a
\* pass that does not raise ends the call with its outcome; three raising
\* passes end it with None; the call can always take a step until it ends.
C9_BoundedRetries ==
    /\ e_fetches <= Retries
    /\ e_raised <= e_fetches
    /\ e_fetches <= e_raised + 1
    /\ (e_pc = "try" => e_fetches = e_raised /\ e_fetches < Retries)
    /\ (e_fetches = e_raised + 1 =>
            Done /\ e_why \in {"hit", "nomatch", "short", "illiquid"})
    /\ (Done /\ e_raised = e_fetches => e_raised = Retries /\ e_res = None)
    /\ (Done \/ ENABLED NextEval)

C9_Witness == Done /\ e_raised = Retries /\ e_res = None

====
